---- MODULE Spec2Model ----
(***************************************************************************)
(* Edenic telemetry dashboards (dadogit99/bluelab).                        *)
(*                                                                         *)
(* Three Streamlit scripts poll the Edenic REST API, and a fourth script   *)
(* tests the sheet:                                                        *)
(*   edenic_dashboard.py             normalises the payload, keeps a       *)
(*                                   session history, shows metrics and a  *)
(*                                   trend chart;                          *)
(*   edenic_dashboard_fixedsheets.py reads {key: {value, ts}} objects and  *)
(*                                   appends a row to a Google sheet;      *)
(*   edenic_dashboard_final.py       reads a flat {key: number} body and   *)
(*                                   appends a row to a Google sheet;      *)
(*   test_google_sheets.py           appends a test row to the same sheet. *)
(*                                                                         *)
(* A run of a sheet-logging script waits on the network three times: for   *)
(* the sheet to open, for the fetch and for append_row. Runs of different  *)
(* sessions interleave at these waits.                                     *)
(*                                                                         *)
(* Python values are tagged records: None, a float (kept in hundredths of  *)
(* a unit, so 6.5 is Num(650) and 22.01 is Num(2201)), a str, a datetime   *)
(* (seconds and microseconds since the epoch, with its tzinfo).            *)
(***************************************************************************)
EXTENDS Integers, Sequences, FiniteSets, TLC

VARIABLES
    history,      \* st.session_state["history"]: the rows of the DataFrame
    prevHistory,  \* st.session_state["history"] as the last run of main() found it
    reading,      \* what get_latest_telemetry returned or raised in the last run
    outcome,      \* what the last run of main() reported with st.error, or "ok"
    latest,       \* the row given to the three st.metric widgets, or None
    chart,        \* the rows given to st.line_chart in the last run (<<>>: no chart)
    now,          \* the wall clock (epoch milliseconds) at the last run
    polls,        \* number of script runs so far
    delivered,    \* the timestamps the successive polls delivered
    sheetRows,    \* the rows of the Google sheet "Edenic Telemetry Log"
    prevRows,     \* the rows of the sheet as the last step of a sheet script found them
    sheetOutcome, \* per session: "ok", or what its last run reported, or "running"
    shown,        \* per session: the values its run gave to st.metric, or None
    runs,         \* per session: where its run of a sheet script stands
    actor,        \* the session that took the last step of a sheet script
    payload,      \* the response body under study (one body, one run)
    df,           \* the DataFrame handed to append_reading (studied on its own)
    result        \* what append_reading returned for df and reading

vars == <<history, prevHistory, reading, outcome, latest, chart, now, polls,
          delivered, sheetRows, prevRows, sheetOutcome, shown, runs, actor,
          payload, df, result>>

sessionVars == <<history, prevHistory, reading, outcome, latest, chart, delivered>>

sheetVars == <<sheetRows, prevRows, sheetOutcome, shown, runs, actor>>

---------------------------------------------------------------------------
(* Bounds of the model *)

\* script runs (refresh ticks) explored per behaviour
MaxPolls == 3

\* runs of the sheet scripts started per behaviour
MaxRuns == 2

\* rows of the DataFrame handed to append_reading when it is studied alone
MaxLen == 2

---------------------------------------------------------------------------
(* Program constants *)

POLL_INTERVAL_SEC == 60

HourMs == 60 * 60 * 1000

---------------------------------------------------------------------------
(* Python values *)

None == [t |-> "None"]

\* a float, in hundredths
Num(n) == [t |-> "float", n |-> n]

Str(s) == [t |-> "str", s |-> s]

\* a key that a dict does not hold
Missing == [t |-> "missing"]

\* dict.get(key): None when the key is missing
Get(v) == IF v = Missing THEN None ELSE v

\* dict.get(key, default)
GetDefault(v, default) == IF v = Missing THEN default ELSE v

\* float(x) of a JSON number: the same number, as a float
float(v) == Num(v.n)

\* _dt.datetime.fromtimestamp(ms / 1000, tz=_dt.timezone.utc), ms >= 0
fromtimestamp(ms) ==
    [t |-> "datetime", sec |-> ms \div 1000, usec |-> (ms % 1000) * 1000,
     tz |-> "UTC"]

\* DatetimeIndex.tz_convert(None): the same instant as naive UTC
tz_convert_None(d) == [d EXCEPT !.tz = "naive"]

\* a < b on datetimes
DtLess(a, b) == a.sec < b.sec \/ (a.sec = b.sec /\ a.usec < b.usec)

DtLeq(a, b) == ~DtLess(b, a)

---------------------------------------------------------------------------
(* Response bodies *)

\* one entry of a measurement's list, or the single object of the other shape
Item(value, ts) == [value |-> value, ts |-> ts]

Absent == [t |-> "absent"]

List(items) == [t |-> "list", items |-> items]

Obj(value, ts) == [t |-> "dict", value |-> value, ts |-> ts]

\* data[key] when the key is there
Key(data, k) == IF k \in DOMAIN data THEN data[k] ELSE Absent

\* bool(x) of what a key holds: [], {}, 0.0 and None are falsy
Truthy(entry) ==
    CASE entry.t = "list" -> entry.items # <<>>
      [] entry.t = "dict" -> ~(entry.value = Missing /\ entry.ts = Missing)
      [] entry.t = "float" -> entry.n # 0
      [] OTHER -> FALSE

\* "key" in data and data["key"]
Present(entry) == entry # Absent /\ Truthy(entry)

Dict(ph, ec, temperature) ==
    [t |-> "dict", ph |-> ph, electrical_conductivity |-> ec,
     temperature |-> temperature]

\* a body that is JSON null, and one that is a JSON array of other things
NullBody == [t |-> "null"]

ArrayBody == [t |-> "array"]

\* what requests.get / raise_for_status / response.json() produce
OkResponse(data) == [kind |-> "ok", data |-> data]

HttpErrorResponse == [kind |-> "http_error"]

NetworkErrorResponse == [kind |-> "network_error"]

---------------------------------------------------------------------------
(* edenic_dashboard.py: get_latest_telemetry *)

Raise(exc) == [exc |-> exc]

Return(ts, ph, ec, temp) ==
    [exc |-> "none", ts |-> ts, ph |-> ph, ec |-> ec, temp |-> temp]

\* item = data[key][0]: a dict of the other shape has no key 0, a number has
\* no subscript
FirstItem(entry) ==
    CASE entry.t = "list" -> [exc |-> "none", item |-> Head(entry.items)]
      [] entry.t = "dict" -> Raise("KeyError")
      [] OTHER -> Raise("TypeError")

\* float(item.get("value")) if item.get("value") is not None else None
ValueOf(item) == IF Get(item.value) # None THEN float(Get(item.value)) ELSE None

\* the "ph" block: the timestamp is converted without a test for None
PhBlock(data) ==
    IF ~Present(Key(data, "ph")) THEN Return(None, None, None, None)
    ELSE LET f == FirstItem(Key(data, "ph")) IN
         IF f.exc # "none" THEN f
         ELSE IF Get(f.item.ts) = None THEN Raise("TypeError")
              ELSE Return(fromtimestamp(Get(f.item.ts).n), ValueOf(f.item),
                          None, None)

\* the timestamp after a later block: kept when set, else this item's if it has one
LaterTs(ts, item) ==
    IF ts = None /\ Get(item.ts) # None THEN fromtimestamp(Get(item.ts).n)
    ELSE ts

EcBlock(data, r) ==
    IF r.exc # "none" \/ ~Present(Key(data, "electrical_conductivity")) THEN r
    ELSE LET f == FirstItem(Key(data, "electrical_conductivity")) IN
         IF f.exc # "none" THEN f
         ELSE Return(LaterTs(r.ts, f.item), r.ph, ValueOf(f.item), r.temp)

TempBlock(data, r) ==
    IF r.exc # "none" \/ ~Present(Key(data, "temperature")) THEN r
    ELSE LET f == FirstItem(Key(data, "temperature")) IN
         IF f.exc # "none" THEN f
         ELSE Return(LaterTs(r.ts, f.item), r.ph, r.ec, ValueOf(f.item))

get_latest_telemetry(resp) ==
    CASE resp.kind = "network_error" -> Raise("RequestException")
      [] resp.kind = "http_error" -> Raise("HTTPError")
      [] OTHER ->
           CASE resp.data.t = "null" -> Raise("TypeError")
             [] resp.data.t = "array" -> Return(None, None, None, None)
             [] OTHER -> TempBlock(resp.data, EcBlock(resp.data, PhBlock(resp.data)))

---------------------------------------------------------------------------
(* edenic_dashboard.py: append_reading *)

Row(timestamp, ph, ec, temp) ==
    [time |-> timestamp, pH |-> ph, EC |-> ec, temperature |-> temp]

Last(s) == s[Len(s)]

\* mutants of append_reading: no test of the last row; no test for None; the new
\* row put where its time sorts
append_reading_nodedup(frame, timestamp, ph, ec, temp) ==
    IF timestamp = None THEN frame
    ELSE Append(frame, Row(timestamp, ph, ec, temp))

append_reading_nonone(frame, timestamp, ph, ec, temp) ==
    IF frame = <<>> \/ Last(frame).time # timestamp
    THEN Append(frame, Row(timestamp, ph, ec, temp))
    ELSE frame

append_reading_sorted(frame, timestamp, ph, ec, temp) ==
    IF timestamp = None THEN frame
    ELSE IF frame = <<>> \/ Last(frame).time # timestamp
         THEN SelectSeq(frame, LAMBDA row : DtLeq(row.time, timestamp))
                \o <<Row(timestamp, ph, ec, temp)>>
                \o SelectSeq(frame, LAMBDA row : DtLess(timestamp, row.time))
         ELSE frame

append_reading(frame, timestamp, ph, ec, temp) ==
    IF timestamp = None THEN frame
    ELSE IF frame = <<>> \/ Last(frame).time # timestamp
         THEN Append(frame, Row(timestamp, ph, ec, temp))
         ELSE frame

---------------------------------------------------------------------------
(* edenic_dashboard.py: main, one run of the script *)

\* which except clause of main() handles the exception
Category(exc) ==
    CASE exc = "none" -> "ok"
      [] exc = "HTTPError" -> "HTTP error"
      [] exc = "RequestException" -> "Network error"
      [] OTHER -> "Unexpected error"

\* the try block: the history is assigned only if nothing was raised
\* mutant of TryBlock: a failed run leaves the session with a fresh DataFrame
TryBlock_reset(old, r) ==
    IF r.exc = "none" THEN append_reading(old, r.ts, r.ph, r.ec, r.temp)
    ELSE <<>>

TryBlock(old, r) ==
    IF r.exc = "none" THEN append_reading(old, r.ts, r.ph, r.ec, r.temp)
    ELSE old

\* history.set_index("time") with the index converted for display
ChartRows(h) == [i \in 1..Len(h) |-> [h[i] EXCEPT !.time = tz_convert_None(h[i].time)]]

\* mutant of Chart: only the rows of the last 24 hours are charted
Chart_windowed(h) ==
    LET cutoff == fromtimestamp(now + POLL_INTERVAL_SEC * 1000 - 24 * HourMs)
        kept == SelectSeq(h, LAMBDA row : DtLeq(cutoff, row.time))
    IN  IF Len(h) > 1 THEN ChartRows(kept) ELSE <<>>

\* the rows st.line_chart gets: only with at least two points
Chart(h) == IF Len(h) > 1 THEN ChartRows(h) ELSE <<>>

\* the row behind the metrics
Latest(h) == IF h # <<>> THEN Last(h) ELSE None

\* st_autorefresh reruns the script every POLL_INTERVAL_SEC seconds
main(resp) ==
    LET r == get_latest_telemetry(resp)
        h == TryBlock(history, r)
    IN  /\ prevHistory' = history
        /\ reading' = r
        /\ history' = h
        /\ outcome' = Category(r.exc)
        /\ latest' = Latest(h)
        /\ chart' = Chart(h)
        /\ now' = now + POLL_INTERVAL_SEC * 1000
        /\ polls' = polls + 1
        /\ delivered' = IF r.exc = "none" /\ r.ts # None
                        THEN Append(delivered, r.ts) ELSE delivered
        /\ UNCHANGED <<sheetVars, payload, df, result>>

---------------------------------------------------------------------------
(* edenic_dashboard_fixedsheets.py *)

NA == Str("N/A")

\* round(num / den, 2) for a value in hundredths: the nearest hundredth, a tie
\* to the even one
Round(num, den) ==
    LET q == num \div den
        r == num % den
    IN  IF 2 * r < den THEN q
        ELSE IF 2 * r > den THEN q + 1
        ELSE IF q % 2 = 0 THEN q ELSE q + 1

\* mutant of convert_c_to_f: the hundredths are cut, not rounded
convert_c_to_f_cut(c) == Num((9 * c.n + 32 * 100 * 5) \div 5)

\* round((c * 9/5) + 32, 2), c and the result in hundredths of a degree
convert_c_to_f(c) == Num(Round(9 * c.n + 32 * 100 * 5, 5))

\* isinstance(x, (int, float))
IsNumber(v) == v.t = "float"

\* fetch_telemetry(): requests.get, raise_for_status, response.json()
fetch_telemetry(resp) ==
    CASE resp.kind = "network_error" -> Raise("RequestException")
      [] resp.kind = "http_error" -> Raise("HTTPError")
      [] OTHER -> [exc |-> "none", data |-> resp.data]

\* data.get(key, {}).get("value", "N/A"): only a dict has .get
ValueField(data, k) ==
    LET entry == Key(data, k) IN
    CASE entry = Absent -> [exc |-> "none", v |-> NA]
      [] entry.t = "dict" -> [exc |-> "none", v |-> GetDefault(entry.value, NA)]
      [] OTHER -> Raise("AttributeError")

\* the UTC offset, in seconds, of pytz.timezone("US/Eastern") on the days the
\* model's clock covers (January: Eastern Standard Time)
Eastern == -5 * 60 * 60

\* datetime.now(tz).strftime("%Y-%m-%d %H:%M:%S") with the wall clock at `ms`:
\* the text names the second of the clock in the zone
strftime(ms, utcoffset) == Str((ms \div 1000) + utcoffset)

SheetRow(now_str, ph, ec, temp_f) ==
    [time |-> now_str, ph |-> ph, ec |-> ec, temp_f |-> temp_f]

Shown(ph, ec, temp_f) == [ph |-> ph, ec |-> ec, temp_f |-> temp_f]

\* the values main() reads from the body, or what it raises before the metrics
ReadValues(resp) ==
    LET f == fetch_telemetry(resp) IN
    IF f.exc # "none" THEN f
    ELSE IF f.data.t # "dict" THEN Raise("AttributeError")
    ELSE LET ph == ValueField(f.data, "ph")
             ec == ValueField(f.data, "electrical_conductivity")
             temp_c == ValueField(f.data, "temperature")
         IN  IF ph.exc # "none" THEN ph
             ELSE IF ec.exc # "none" THEN ec
             ELSE IF temp_c.exc # "none" THEN temp_c
             ELSE [exc |-> "none", ph |-> ph.v, ec |-> ec.v,
                   temp_f |-> IF IsNumber(temp_c.v) THEN convert_c_to_f(temp_c.v)
                              ELSE NA]

---------------------------------------------------------------------------
(* edenic_dashboard_final.py: the values of the script body *)

\* data.get(key, "N/A")
FlatField(data, k) == IF Key(data, k) = Absent THEN NA ELSE Key(data, k)

FlatValues(resp) ==
    LET f == fetch_telemetry(resp) IN
    IF f.exc # "none" THEN f
    ELSE IF f.data.t # "dict" THEN Raise("AttributeError")
    ELSE LET temp_c == FlatField(f.data, "temperature") IN
         [exc |-> "none", ph |-> FlatField(f.data, "ph"),
          ec |-> FlatField(f.data, "ec"),
          temp_f |-> IF IsNumber(temp_c)
                     THEN Num(Round(9 * temp_c.n + 32 * 100 * 5, 5)) ELSE NA]

\* the body of /telemetry/latest: a number (or null) under each key
FlatDict(ph, ec, temperature) ==
    [t |-> "dict", ph |-> ph, ec |-> ec, temperature |-> temperature]

---------------------------------------------------------------------------
(* test_google_sheets.py: the values of the test row *)

\* datetime.now() is the host's local time: a host on UTC, a host on Eastern
HostOffsets == {0, Eastern}

\* test_row, after the time text
test_row ==
    [exc |-> "none", ph |-> Str("TEST_PH"), ec |-> Str("TEST_EC"),
     temp_f |-> Str("TEST_TEMP_F")]

---------------------------------------------------------------------------
(* Runs of the sheet scripts. Each run waits on the network three times:   *)
(* while the sheet opens, while the fetch is out, while append_row is out. *)
(* A step of a run is what the script does from one wait to the next; `d`  *)
(* is the time the wait took. Other sessions' runs step in between.        *)

\* a browser session of a Streamlit script, or a shell running the test script
Sessions == {"a", "b"}

\* where a run stands: pc is "idle" (no run, or the run ended), "fetching" (in
\* requests.get) or "appending" (in append_row); stamp is the time text the run
\* holds, v the values it read
Run(pc, script, stamp, v) == [pc |-> pc, script |-> script, stamp |-> stamp, v |-> v]

Idle == Run("idle", "none", None, None)

\* the start of a run, up to its first wait after the sheet opened (`next`);
\* gspread.authorize and client.open raise outside any try when the sheet
\* cannot be opened, and the run ends there
Open(s, opened, d, next) ==
    /\ runs[s].pc = "idle"
    /\ now' = now + d
    /\ polls' = polls + 1
    /\ actor' = s
    /\ prevRows' = sheetRows
    /\ sheetRows' = sheetRows
    /\ shown' = [shown EXCEPT ![s] = None]
    /\ sheetOutcome' = [sheetOutcome EXCEPT ![s] = IF opened THEN "running"
                                                  ELSE "APIError"]
    /\ runs' = [runs EXCEPT ![s] = IF opened THEN next
                                   ELSE Run("idle", next.script, None, None)]
    /\ UNCHANGED <<sessionVars, payload, df, result>>

\* requests.get returned or raised: the values `v` read from the body go to the
\* metrics and the run holds `stamp`; an exception goes to st.error after the
\* script's words `said` (the exception's class stands for its text)
Fetched(s, v, stamp, said, d) ==
    /\ runs[s].pc = "fetching"
    /\ now' = now + d
    /\ polls' = polls
    /\ actor' = s
    /\ prevRows' = sheetRows
    /\ sheetRows' = sheetRows
    /\ shown' = [shown EXCEPT ![s] = IF v.exc = "none"
                                     THEN Shown(v.ph, v.ec, v.temp_f) ELSE None]
    /\ sheetOutcome' = [sheetOutcome EXCEPT ![s] = IF v.exc = "none" THEN @
                                                  ELSE said \o v.exc]
    /\ runs' = [runs EXCEPT ![s] = IF v.exc = "none"
                                   THEN Run("appending", @.script, stamp, v)
                                   ELSE Run("idle", @.script, @.stamp, None)]
    /\ UNCHANGED <<sessionVars, payload, df, result>>

\* mutant of append_row: only a row of three numbers is appended
append_row_complete(rows, row, sinkOk) ==
    IF sinkOk /\ IsNumber(row.ph) /\ IsNumber(row.ec) /\ IsNumber(row.temp_f)
    THEN Append(rows, row) ELSE rows

\* sheet.append_row(row): the row goes below the rows the sheet holds when the
\* call arrives, or the call raises and the sheet stays
append_row(rows, row, sinkOk) == IF sinkOk THEN Append(rows, row) ELSE rows

\* append_row returned or raised: the row is the time text the run holds and
\* the values it read; an exception is reported after `said`
Logged(s, sinkOk, said, d) ==
    LET r == runs[s] IN
    /\ r.pc = "appending"
    /\ now' = now + d
    /\ polls' = polls
    /\ actor' = s
    /\ prevRows' = sheetRows
    /\ sheetRows' = append_row(sheetRows,
                               SheetRow(r.stamp, r.v.ph, r.v.ec, r.v.temp_f),
                               sinkOk)
    /\ shown' = shown
    /\ sheetOutcome' = [sheetOutcome EXCEPT ![s] = IF sinkOk THEN "ok"
                                                  ELSE said \o "APIError"]
    /\ runs' = [runs EXCEPT ![s].pc = "idle"]
    /\ UNCHANGED <<sessionVars, payload, df, result>>

\* edenic_dashboard_fixedsheets.py: st_autorefresh, the sheet opened, main()
\* entered and the fetch sent
fixedsheets_open(s, opened, d) ==
    Open(s, opened, d, Run("fetching", "fixedsheets", None, None))

\* main() from the fetch's return to append_row: the clock is read after the
\* metrics
fixedsheets_main(s, resp, d) ==
    /\ runs[s].script = "fixedsheets"
    /\ Fetched(s, ReadValues(resp), strftime(now + d, Eastern), "Error: ", d)

\* main() from append_row's return
fixedsheets_append(s, sinkOk, d) ==
    /\ runs[s].script = "fixedsheets"
    /\ Logged(s, sinkOk, "Error: ", d)

\* edenic_dashboard_final.py: the sheet opened, the clock read into now_et and
\* shown, the fetch sent
final_open(s, opened, d) ==
    Open(s, opened, d, Run("fetching", "final", strftime(now + d, Eastern), None))

\* the script from the fetch's return to append_row: the row takes now_et, the
\* clock as the run read it before the fetch
final_script(s, resp, d) ==
    /\ runs[s].script = "final"
    /\ Fetched(s, FlatValues(resp), runs[s].stamp,
               "Failed to retrieve or log telemetry data: ", d)

\* the script from append_row's return
final_append(s, sinkOk, d) ==
    /\ runs[s].script = "final"
    /\ Logged(s, sinkOk, "Failed to retrieve or log telemetry data: ", d)

\* test_google_sheets.py: the sheet opened, the host's clock read, the test row
\* sent; there is no fetch
test_open(s, opened, d, utcoffset) ==
    Open(s, opened, d, Run("appending", "test", strftime(now + d, utcoffset),
                           test_row))

\* the script from append_row's return: the print, or the uncaught exception
test_append(s, sinkOk, d) ==
    /\ runs[s].script = "test"
    /\ Logged(s, sinkOk, "", d)

---------------------------------------------------------------------------
(* Initial states *)

\* the wall clock when a session starts: the device's latest entries may be
\* fresh (an hour old) or stale (a device that was offline for more than a day)
SessionStart == 31 * HourMs

NoReading == [exc |-> "init"]

NotCalled == [called |-> FALSE]

Returned(frame) == [called |-> TRUE, frame |-> frame]

InitSession ==
    /\ history = <<>>
    /\ prevHistory = <<>>
    /\ reading = NoReading
    /\ outcome = "init"
    /\ latest = None
    /\ chart = <<>>
    /\ delivered = <<>>

InitSheets ==
    /\ sheetRows = <<>>
    /\ prevRows = <<>>
    /\ sheetOutcome = [s \in Sessions |-> "init"]
    /\ shown = [s \in Sessions |-> None]
    /\ runs = [s \in Sessions |-> Idle]
    /\ actor = "none"

InitClock == now = SessionStart /\ polls = 0

InitAppend == df = <<>> /\ result = NotCalled

---------------------------------------------------------------------------
(* Spec: a session of edenic_dashboard.py, one run per refresh tick *)

\* "ts" values (epoch milliseconds) the device reports
CycleTs == {1500, HourMs, 30 * HourMs}

\* the latest entry of one measurement: value null or v, ts null or a time
CycleItems(v) == {Item(x, ts) : x \in {None, Num(v)},
                                ts \in {None} \cup {Num(m) : m \in CycleTs}}

\* what a body holds under one measurement key
CycleEntries(v) ==
    {Absent, List(<<>>), Obj(Num(v), Num(1500))}
        \cup {List(<<i>>) : i \in CycleItems(v)}

CycleBodies ==
    {Dict(p, e, c) : p \in CycleEntries(650), e \in CycleEntries(180),
                     c \in CycleEntries(2200)}
        \cup {NullBody, ArrayBody}

\* main() reads the body only through get_latest_telemetry: one body for each
\* result the bodies of CycleBodies can produce
CycleResults == {get_latest_telemetry(OkResponse(b)) : b \in CycleBodies}

CycleInputs ==
    {CHOOSE b \in CycleBodies : get_latest_telemetry(OkResponse(b)) = r :
        r \in CycleResults}

Init == InitSession /\ InitSheets /\ InitClock /\ InitAppend /\ payload = NullBody

\* a run whose fetch returns a body
PollOk ==
    /\ polls < MaxPolls
    /\ \E body \in CycleInputs : main(OkResponse(body))

\* a run whose fetch gets a non-2xx status: raise_for_status raises
PollHttpError ==
    /\ polls < MaxPolls
    /\ main(HttpErrorResponse)

\* a run whose fetch fails in the transport (no route, timeout)
PollNetworkError ==
    /\ polls < MaxPolls
    /\ main(NetworkErrorResponse)

Next == PollOk \/ PollHttpError \/ PollNetworkError

Spec == Init /\ [][Next]_vars

---------------------------------------------------------------------------
(* SpecSheets: runs of the sheet scripts, from two sessions, on one sheet *)

\* bodies of /api/v1/telemetry/<id>, as edenic_dashboard_fixedsheets.py reads
\* them: every value a number; no "ph", a null and a value-less entry; the list
\* shape; a null body
SheetBodies ==
    {Dict(Obj(Num(650), Num(1500)), Obj(Num(180), Num(1500)),
          Obj(Num(2201), Num(1500))),
     Dict(Absent, Obj(None, Num(1500)), Obj(Missing, Num(1500))),
     Dict(List(<<Item(Num(650), Num(1500))>>), Obj(Num(180), Num(1500)),
          Obj(Num(2201), Num(1500))),
     NullBody}

\* bodies of /telemetry/latest, as edenic_dashboard_final.py reads them: every
\* value a number; "ph" alone; no "ph" and a null temperature; an array
FlatBodies ==
    {FlatDict(Num(650), Num(180), Num(2201)),
     FlatDict(Num(650), Absent, Absent),
     FlatDict(Absent, Num(180), None),
     ArrayBody}

FailedResponses == {HttpErrorResponse, NetworkErrorResponse}

\* the time from the last step to the moment a run has opened the sheet
\* (milliseconds): within the second, or a refresh interval
OpenMs == {500, POLL_INTERVAL_SEC * 1000}

\* the time a fetch or an append_row takes (milliseconds)
WaitMs == {500}

\* sessions are named in the order they first load a script
MayOpen(s) == s = "a" \/ runs["a"].script # "none"

OpenFixedsheets ==
    /\ polls < MaxRuns
    /\ \E s \in Sessions, opened \in BOOLEAN, d \in OpenMs :
           MayOpen(s) /\ fixedsheets_open(s, opened, d)

RunFixedsheets ==
    \E s \in Sessions, d \in WaitMs,
       resp \in {OkResponse(b) : b \in SheetBodies} \cup FailedResponses :
        fixedsheets_main(s, resp, d)

AppendFixedsheets ==
    \E s \in Sessions, sinkOk \in BOOLEAN, d \in WaitMs :
        fixedsheets_append(s, sinkOk, d)

OpenFinal ==
    /\ polls < MaxRuns
    /\ \E s \in Sessions, opened \in BOOLEAN, d \in OpenMs :
           MayOpen(s) /\ final_open(s, opened, d)

RunFinal ==
    \E s \in Sessions, d \in WaitMs,
       resp \in {OkResponse(b) : b \in FlatBodies} \cup FailedResponses :
        final_script(s, resp, d)

AppendFinal ==
    \E s \in Sessions, sinkOk \in BOOLEAN, d \in WaitMs :
        final_append(s, sinkOk, d)

OpenTest ==
    /\ polls < MaxRuns
    /\ \E s \in Sessions, opened \in BOOLEAN, d \in OpenMs,
          utcoffset \in HostOffsets :
           MayOpen(s) /\ test_open(s, opened, d, utcoffset)

AppendTest ==
    \E s \in Sessions, sinkOk \in BOOLEAN, d \in WaitMs :
        test_append(s, sinkOk, d)

NextSheets ==
    \/ OpenFixedsheets \/ RunFixedsheets \/ AppendFixedsheets
    \/ OpenFinal \/ RunFinal \/ AppendFinal
    \/ OpenTest \/ AppendTest

SpecSheets == Init /\ [][NextSheets]_vars

---------------------------------------------------------------------------
(* SpecPayload: one response body, read once by edenic_dashboard.py or by *)
(* edenic_dashboard_fixedsheets.py                                         *)

PayloadTs == {1500, HourMs}

TempValues == {0, 2201, -4001}

\* an entry {value, ts}: either key may lack or hold null
PayloadItems(values) ==
    {Item(x, ts) : x \in {Missing, None} \cup {Num(v) : v \in values},
                   ts \in {None} \cup {Num(m) : m \in PayloadTs}}

\* an older entry behind the latest one
OlderItem(values) == Item(Num(CHOOSE v \in values : TRUE), Num(500))

PayloadEntries(values) ==
    {Absent, None, List(<<>>), Obj(Missing, Missing)}
        \cup {Num(v) : v \in values}
        \cup {List(<<i>>) : i \in PayloadItems(values)}
        \cup {List(<<i, OlderItem(values)>>) : i \in PayloadItems({})}
        \cup {Obj(i.value, i.ts) : i \in PayloadItems(values)}

Payloads ==
    {Dict(p, e, c) : p \in PayloadEntries({650}), e \in PayloadEntries({180}),
                     c \in PayloadEntries(TempValues)}
        \cup {NullBody, ArrayBody}

InitPayload ==
    /\ InitSession /\ InitSheets /\ InitClock /\ InitAppend
    /\ payload \in Payloads

NothingRan == polls = 0

DashboardReads == NothingRan /\ main(OkResponse(payload))

\* one run of edenic_dashboard_fixedsheets.py, in one session, on the body
FixedsheetsReads ==
    LET d == POLL_INTERVAL_SEC * 1000 IN
    \/ NothingRan /\ \E opened \in BOOLEAN : fixedsheets_open("a", opened, d)
    \/ fixedsheets_main("a", OkResponse(payload), d)
    \/ \E sinkOk \in BOOLEAN : fixedsheets_append("a", sinkOk, d)

NextPayload == DashboardReads \/ FixedsheetsReads

SpecPayload == InitPayload /\ [][NextPayload]_vars

---------------------------------------------------------------------------
(* SpecAppend: append_reading on any DataFrame and any reading *)

AppendRows ==
    {Row(fromtimestamp(m), ph, Num(180), Num(2200)) :
        m \in CycleTs, ph \in {None, Num(650)}}

\* DataFrames of at most n rows, in any order and with repeats
RECURSIVE Frames(_)
Frames(n) ==
    IF n = 0 THEN {<<>>}
    ELSE Frames(n - 1)
            \cup {Append(f, r) : f \in {g \in Frames(n - 1) : Len(g) = n - 1},
                                 r \in AppendRows}

AppendReadings ==
    {Return(ts, ph, Num(180), temp) :
        ts \in {None} \cup {fromtimestamp(m) : m \in CycleTs},
        ph \in {None, Num(650)}, temp \in {None, Num(2200)}}

InitAppendSpec ==
    /\ history = <<>> /\ prevHistory = <<>> /\ outcome = "init" /\ latest = None
    /\ chart = <<>> /\ delivered = <<>>
    /\ InitSheets /\ InitClock
    /\ payload = NullBody
    /\ df \in Frames(MaxLen)
    /\ reading \in AppendReadings
    /\ result = NotCalled

CallAppendReading ==
    /\ result = NotCalled
    /\ result' = Returned(append_reading(df, reading.ts, reading.ph, reading.ec,
                                          reading.temp))
    /\ UNCHANGED <<sessionVars, sheetVars, now, polls, payload, df>>

NextAppend == CallAppendReading

SpecAppend == InitAppendSpec /\ [][NextAppend]_vars

---------------------------------------------------------------------------
(* Properties of append_reading (SpecAppend) *)

\* s is t with exactly row r added at the end
AddsAtEnd(s, t, r) ==
    /\ Len(s) = Len(t) + 1
    /\ SubSeq(s, 1, Len(t)) = t
    /\ s[Len(s)] = r

ReadingRow(r) == Row(r.ts, r.ph, r.ec, r.temp)

\* C1: append_reading returns the history unchanged when the reading's timestamp
\* is None, unchanged when the history is non-empty and its last entry has the
\* reading's timestamp, and in every other case the old history with exactly
\* that reading added at the end.
C1_AppendIfNew ==
    result.called =>
        IF reading.ts = None THEN result.frame = df
        ELSE IF df # <<>> /\ Last(df).time = reading.ts THEN result.frame = df
        ELSE AddsAtEnd(result.frame, df, ReadingRow(reading))

\* a reading whose timestamp an earlier row has, but not the last row: added
C1_Witness ==
    /\ result.called
    /\ Len(df) >= 2
    /\ df[1].time = reading.ts
    /\ Last(df).time # reading.ts
    /\ AddsAtEnd(result.frame, df, ReadingRow(reading))

---------------------------------------------------------------------------
(* Properties of the session (Spec) *)

ErrorCategories == {"HTTP error", "Network error", "Unexpected error"}

\* C2: in every state a sequence of poll cycles reaches from the empty history,
\* no stored entry has a None timestamp and no two consecutive entries share a
\* timestamp.
C2_NoNoneNoAdjacentDuplicate ==
    /\ \A i \in 1..Len(history) : history[i].time # None
    /\ \A i \in 1..(Len(history) - 1) : history[i].time # history[i + 1].time

\* a poll repeated the last stored timestamp and was dropped
C2_Witness ==
    /\ Len(history) >= 1
    /\ Len(delivered) > Len(history)
    /\ outcome = "ok"
    /\ reading.ts = Last(history).time
    /\ history = prevHistory

\* C3: a poll cycle whose fetch or normalisation raises leaves the History as it
\* was, reports the error inside the cycle, and completes: the metrics and the
\* chart are drawn from the unchanged History.
C3_FailedCycleKeepsHistory ==
    (polls > 0 /\ reading.exc # "none") =>
        /\ outcome \in ErrorCategories
        /\ history = prevHistory
        /\ latest = (IF prevHistory = <<>> THEN None ELSE Last(prevHistory))
        /\ Len(chart) = (IF Len(prevHistory) > 1 THEN Len(prevHistory) ELSE 0)

\* a non-2xx status after two readings were stored
C3_Witness ==
    /\ outcome = "HTTP error"
    /\ reading.exc = "HTTPError"
    /\ Len(history) = 2
    /\ history = prevHistory

\* the same instant, whatever the tzinfo
SameInstant(a, b) == a.sec = b.sec /\ a.usec = b.usec

SameRow(a, b) ==
    /\ SameInstant(a.time, b.time)
    /\ a.pH = b.pH /\ a.EC = b.EC /\ a.temperature = b.temperature

\* the entries of h no older than `lookback` milliseconds at wall clock `clock`
selectWindow(h, clock, lookback) ==
    SelectSeq(h, LAMBDA row : DtLeq(fromtimestamp(clock - lookback), row.time))

DefaultLookback == 24 * HourMs

\* C9 as stated: the rows handed to the chart are exactly the entries of History
\* with timestamp >= now - 24 h.
C9_Original ==
    chart # <<>> =>
        LET w == selectWindow(history, now, DefaultLookback) IN
        /\ Len(chart) = Len(w)
        /\ \A i \in 1..Len(w) : SameRow(chart[i], w[i])

\* C9 amended: the rows handed to the presentation layer are the entries of
\* History whatever their age (no lookback is applied): the chart gets every
\* entry, in order, once there are two, the metrics get the last entry, and
\* the stored entries stay as they were appended (UTC, untouched by the
\* display conversion).
C9_AllRowsCharted ==
    polls > 0 =>
        /\ Len(history) > 1 =>
              /\ Len(chart) = Len(history)
              /\ \A i \in 1..Len(history) : SameRow(chart[i], history[i])
        /\ Len(history) <= 1 => chart = <<>>
        /\ history # <<>> => latest = Last(history)
        /\ \A i \in 1..Len(history) : history[i].time.tz = "UTC"

\* two entries, the first one older than 24 hours at the time of the run: both
\* are charted
C9_Witness ==
    /\ Len(history) = 2
    /\ Len(chart) = 2
    /\ Len(selectWindow(history, now, DefaultLookback)) = 1
    /\ SameInstant(chart[1].time, history[1].time)

NonDecreasing(ts) == \A i \in 1..(Len(ts) - 1) : DtLeq(ts[i], ts[i + 1])

StrictlyAscending(h) ==
    \A i \in 1..(Len(h) - 1) : DtLess(h[i].time, h[i + 1].time)

\* C10: when the timestamps the polls deliver are non-decreasing the History is
\* strictly ascending; the store never reorders: every cycle keeps the earlier
\* entries in place, and a reading earlier than the last stored one is added at
\* the end as it is.
C10_AscendingUnderMonotoneSource ==
    /\ NonDecreasing(delivered) => StrictlyAscending(history)
    /\ Len(prevHistory) <= Len(history)
    /\ SubSeq(history, 1, Len(prevHistory)) = prevHistory
    /\ (/\ reading.exc = "none"
        /\ reading.ts # None
        /\ prevHistory # <<>>
        /\ DtLess(reading.ts, Last(prevHistory).time))
         => AddsAtEnd(history, prevHistory, ReadingRow(reading))

\* three polls with non-decreasing timestamps, one of them a repeat
C10_Witness ==
    /\ Len(delivered) = 3
    /\ NonDecreasing(delivered)
    /\ delivered[1] = delivered[2]
    /\ Len(history) = 2
    /\ StrictlyAscending(history)

---------------------------------------------------------------------------
(* Properties of one body read once (SpecPayload) *)

MeasurementKeys == <<"ph", "electrical_conductivity", "temperature">>

DashboardRan == polls = 1 /\ outcome # "init"

FixedsheetsRan == polls = 1 /\ runs["a"].script = "fixedsheets"

\* the latest entry a key supplies, in either shape; an entry without keys when
\* the key is absent or empty
NoItem == Item(Missing, Missing)

LatestItem(entry) ==
    CASE entry.t = "list" /\ entry.items # <<>> -> Head(entry.items)
      [] entry.t = "dict" -> Item(entry.value, entry.ts)
      [] OTHER -> NoItem

\* the measurement a key supplies, None when it supplies none
Measurement(data, k) ==
    LET v == Get(LatestItem(Key(data, k)).value) IN
    IF v = None THEN None ELSE Num(v.n)

KeyTs(data, k) == Get(LatestItem(Key(data, k)).ts)

\* the ts of the first key, in the order ph, electrical_conductivity,
\* temperature, that supplies a non-null one; None when none does
FirstTs(data) ==
    LET with == {i \in 1..3 : KeyTs(data, MeasurementKeys[i]) # None} IN
    IF with = {} THEN None
    ELSE LET first == CHOOSE i \in with : \A j \in with : i <= j IN
         fromtimestamp(KeyTs(data, MeasurementKeys[first]).n)

\* the canonical reading of a body
Canonical(data) ==
    Return(FirstTs(data), Measurement(data, "ph"),
           Measurement(data, "electrical_conductivity"),
           Measurement(data, "temperature"))

\* a mapping whose keys, where present, hold lists
ListShaped(data) ==
    /\ data.t = "dict"
    /\ \A i \in 1..3 : Key(data, MeasurementKeys[i]).t \in {"absent", "list"}

\* a mapping whose keys, where present, hold a list or a single object, one key
\* at least holding an object
ObjectShaped(data) ==
    /\ data.t = "dict"
    /\ \A i \in 1..3 : Key(data, MeasurementKeys[i]).t \in {"absent", "list", "dict"}
    /\ \E i \in 1..3 : /\ Key(data, MeasurementKeys[i]).t = "dict"
                       /\ Truthy(Key(data, MeasurementKeys[i]))

\* C4: the reading's timestamp is the ts of the first key, in the order ph,
\* electrical_conductivity, temperature, whose latest entry has a non-null ts;
\* when no key has one (a key present with ts null included) the normaliser
\* returns timestamp None without raising and nothing is appended.
C4_FirstKeyWithTsDecides ==
    (DashboardRan /\ ListShaped(payload)) =>
        /\ reading.exc = "none"
        /\ reading.ts = FirstTs(payload)
        /\ FirstTs(payload) = None => history = <<>>

\* C5: for a body that lacks some of the three keys (or has an empty list for
\* them) normalisation does not raise, each missing measurement is None, and
\* the partial reading is appended when a remaining key supplies a timestamp
\* (the History is empty here, so any timestamp differs from the last stored).
C5_PartialReadingAppended ==
    (/\ DashboardRan
     /\ ListShaped(payload)
     /\ \E i \in 1..3 : ~Present(Key(payload, MeasurementKeys[i]))) =>
        /\ reading.exc = "none"
        /\ ~Present(Key(payload, "ph")) => reading.ph = None
        /\ ~Present(Key(payload, "electrical_conductivity")) => reading.ec = None
        /\ ~Present(Key(payload, "temperature")) => reading.temp = None
        /\ FirstTs(payload) # None => history = <<ReadingRow(reading)>>

\* C6: a key holding a single object {value, ts} gives the reading the list
\* shape gives, and a body that is no mapping gives the all-None reading
\* instead of an exception, which the run treats as nothing to append.
C6_BothShapesOneReading ==
    DashboardRan =>
        /\ (ObjectShaped(payload) /\ KeyTs(payload, "ph") # None) =>
              reading = Canonical(payload)
        /\ payload.t # "dict" =>
              reading = Return(None, None, None, None) /\ history = <<>>

\* the Celsius value the body holds under "temperature"
SourceCelsius == Get(LatestItem(Key(payload, "temperature")).value)

\* f hundredths is exactly c * 9/5 + 32 for c hundredths
ExactFahrenheit(f, c) == 5 * f = 9 * c + 32 * 100 * 5

\* f hundredths is the hundredth nearest to c * 9/5 + 32
NearestFahrenheit(f, c) ==
    LET d == 5 * f - (9 * c + 32 * 100 * 5) IN 2 * d < 5 /\ -5 < 2 * d

\* C7 as stated: an extracted temperature is stored in the reading, in History
\* and in a forwarded row as exactly c * 9/5 + 32.
C7_Original ==
    /\ (DashboardRan /\ reading.exc = "none" /\ reading.temp # None) =>
          /\ ExactFahrenheit(reading.temp.n, SourceCelsius.n)
          /\ history # <<>> => Last(history).temperature = reading.temp
    /\ (FixedsheetsRan /\ sheetRows # <<>> /\ IsNumber(Last(sheetRows).temp_f)) =>
          ExactFahrenheit(Last(sheetRows).temp_f.n, SourceCelsius.n)

\* C7 amended: edenic_dashboard.py stores an extracted temperature in the
\* reading and in History as the source Celsius value c, unconverted; the
\* sheet-logging script shows and forwards round(c * 9/5 + 32, 2), the
\* conversion applied once and rounded to two decimals, whenever the body's
\* temperature value is a number.
C7_CelsiusStoredFahrenheitForwarded ==
    /\ (DashboardRan /\ reading.exc = "none" /\ reading.temp # None) =>
          /\ reading.temp = Num(SourceCelsius.n)
          /\ history # <<>> => Last(history).temperature = Num(SourceCelsius.n)
    /\ (FixedsheetsRan /\ shown["a"] # None) =>
          /\ IsNumber(shown["a"].temp_f) <=> IsNumber(SourceCelsius)
          /\ IsNumber(shown["a"].temp_f) =>
                NearestFahrenheit(shown["a"].temp_f.n, SourceCelsius.n)
          /\ sheetRows # <<>> => Last(sheetRows).temp_f = shown["a"].temp_f

\* 22.01 degrees Celsius forwarded as 71.62, where c * 9/5 + 32 is 71.618
C7_Witness ==
    /\ FixedsheetsRan
    /\ SourceCelsius = Num(2201)
    /\ sheetRows # <<>>
    /\ Last(sheetRows).temp_f = Num(7162)

---------------------------------------------------------------------------
(* Properties of the sheet-logging scripts (SpecSheets) *)

Complete(row) == IsNumber(row.ph) /\ IsNumber(row.ec) /\ IsNumber(row.temp_f)

\* the run whose step was the last one
Acted == runs[actor]

\* C8 as stated: a row is forwarded only if the reading is complete; a cycle
\* whose reading has an absent measurement forwards nothing; a forwarding
\* failure leaves what is stored as it was.
C8_Original ==
    (actor # "none" /\ Acted.script # "test") =>
        /\ sheetRows # prevRows => Complete(Last(sheetRows))
        /\ (shown[actor] # None /\ ~Complete(shown[actor])) => sheetRows = prevRows
        /\ sheetOutcome[actor] \notin {"running", "ok"} =>
              sheetRows = prevRows /\ history = <<>>

\* C8 amended: a run of a sheet-logging script forwards one row exactly when
\* the sheet opens, the fetch, the reading of the body and the sink all
\* succeed, complete reading or not: the row goes below the rows the sheet
\* holds at that moment, whichever run put them there, and holds the time text
\* the run read from the clock and the values shown, "N/A" for an absent
\* measurement; every other step of a run, and any failure, forwards nothing
\* and leaves the rows already in the sheet (and the History, which these
\* scripts do not keep) as they were.
C8_RowForwardedCompleteOrNot ==
    actor # "none" =>
        /\ sheetOutcome[actor] = "ok" =>
              /\ Acted.pc = "idle"
              /\ AddsAtEnd(sheetRows, prevRows,
                           SheetRow(Acted.stamp, Acted.v.ph, Acted.v.ec,
                                    Acted.v.temp_f))
              /\ Acted.script # "test" =>
                    shown[actor] = Shown(Acted.v.ph, Acted.v.ec, Acted.v.temp_f)
        /\ sheetOutcome[actor] # "ok" => sheetRows = prevRows
        /\ history = <<>>

\* a run of edenic_dashboard_final.py forwarded a row with "N/A" for the
\* temperature, below the row of a run that started after it: the later row
\* holds the earlier time
C8_Witness ==
    /\ actor # "none"
    /\ Acted.script = "final"
    /\ sheetOutcome[actor] = "ok"
    /\ Len(sheetRows) = 2
    /\ sheetRows[2].temp_f = NA
    /\ ~Complete(sheetRows[2])
    /\ sheetRows[2].time.s < sheetRows[1].time.s

====
